---- MODULE Spec2Model ----
(***************************************************************************)
(* champ-r main process (src/app/main.ts): the champion-selection popup    *)
(* signalling (onShowPopup, its timers and the window handlers), the build *)
(* ingestion run (the PrepareSourceData handler) and the rune-page apply   *)
(* (the applyRunePage handler).                                            *)
(***************************************************************************)
EXTENDS Integers, Sequences, FiniteSets, TLC

\* ------------------------------------------------------------------ bounds
\* champion-selection messages handled in one behaviour
MaxMsgs == 2
\* popup windows created in one behaviour (the one of start-up included)
MaxWin == 3
\* descriptor files in the working directory when it is scanned
MaxCwd == 2
\* applyRunePage requests handled in one behaviour
MaxJobs == 3
\* ingestion runs followed when the runs are recorded for comparison
MaxRuns == 2

VARIABLES
  \* ---- windows and popup signalling
  mainWindow,    \* TRUE: the module variable mainWindow holds a window
  popupWindow,   \* 0: null, else the popup window the variable refers to
  open,          \* popup windows that exist (created, not closed)
  visible,       \* popup windows that are shown
  nWin,          \* popup windows created so far
  lastChampion,  \* the module variable lastChampion
  creating,      \* onShowPopup calls awaiting createPopupWindow
  timers,        \* live setInterval tasks of onShowPopup, the next to fire first
  pushed,        \* the `for-popup` sends, in order
  nMsgs,         \* champion-selection messages handled so far
  ev,            \* the event handled by the last step
  lastSignaled,  \* history: last championId signalled since the last reset
  \* ---- ingestion run (PrepareSourceData)
  pc,            \* where the handler of the current run stands
  source,        \* the handler's argument
  tarball,       \* the handler's local `tarball`
  archive,       \* the downloaded package: its files, and whether it is cut
  extract,       \* the tar.x stream piped at line 361
  cwd,           \* descriptor files present in .npm/<source>/
  files,         \* the handler's local `files`
  tasks,         \* the handler's local `tasks` with each promise's state
  msgs,          \* updateStatusForMainWindowWebView calls of the run
  failed,        \* history: the call of the run that threw or rejected
  \* ---- rune-page apply (applyRunePage)
  isDev,         \* the module constant isDev (IS_DEV_MODE of the environment)
  applying,      \* the job whose lcuWatcher.applyRunePage call is pending, or 0
  jobs,          \* the applyRunePage requests so far, by jobId
  \* ---- the build directory and the record of the runs
  recording,     \* whether the writes and the runs are recorded (else constant)
  disk,          \* the build files saveToFile has written under lolDir
  runs           \* history: what each ended run targeted and left on disk

wvars == <<mainWindow, popupWindow, open, visible, nWin, lastChampion,
           creating, timers, pushed, nMsgs, ev, lastSignaled>>
ivars == <<pc, source, tarball, archive, extract, cwd, files, tasks, msgs,
           failed>>
avars == <<isDev, applying, jobs>>
rvars == <<recording, disk, runs>>
vars == <<wvars, ivars, avars, rvars>>

\* ---------------------------------------------------------------- helpers
\* an optional value: absent (undefined), or present with a value
Undefined == <<>>
Some(v) == <<v>>

\* championId values of a message: 0 stands for an absent id
ChampionIds == {0, 103, 157}

\* IPopupEventData: championId and the noCache flag
PopupEventData == [championId : ChampionIds, noCache : BOOLEAN]

\* ------------------------------------------------- popup signalling (main.ts)
Ev(op) == [op |-> op, championId |-> 0, noCache |-> FALSE, signal |-> FALSE,
           before |-> 0]

\* the state after start-up (lines 569-617): devs is what isDev may be, recs
\* whether the build directory and the runs are recorded
Start(devs, recs) ==
  /\ mainWindow = TRUE
  /\ popupWindow = 1
  /\ open = {1}
  /\ visible = {}
  /\ nWin = 1
  /\ lastChampion = 0
  /\ creating = {}
  /\ timers = <<>>
  /\ pushed = <<>>
  /\ nMsgs = 0
  /\ ev = Ev("start")
  /\ lastSignaled = 0
  \* no PrepareSourceData request yet
  /\ pc = "idle"
  /\ source = <<>>
  /\ tarball = Undefined
  /\ archive = [files |-> {}, cut |-> FALSE]
  /\ extract = [st |-> "idle", left |-> {}]
  /\ cwd = {}
  /\ files = <<>>
  /\ tasks = <<>>
  /\ msgs = <<>>
  /\ failed = "none"
  \* no applyRunePage request yet
  /\ isDev \in devs
  /\ applying = 0
  /\ jobs = <<>>
  \* an empty build directory, no run ended yet
  /\ recording \in recs
  /\ disk = {}
  /\ runs = <<>>

\* a production build, the build directory not followed
Init == Start({FALSE}, {FALSE})

\* the noCache reset left out of onShowPopup
AfterNoCacheKept(data) == lastChampion

\* lines 209-213: the value of lastChampion after the noCache reset
AfterNoCache(data) == IF data.noCache THEN 0 ELSE lastChampion

\* lines 211-213: the early return of onShowPopup
Suppressed(data) ==
  data.championId = 0 \/ AfterNoCache(data) = data.championId

\* the `data` an onShowPopup call keeps in its timer callback: the championId,
\* and as history n, the number of the message among those handled
Signal(data, n) == [championId |-> data.championId, n |-> n]

\* lines 221-235: show, focus and the polling timer, on window w; the new
\* timer fires 300 ms from now, after every live timer has fired once more
ShowAndPoll(w, sig) ==
  /\ visible' = visible \cup {w}
  /\ timers' = Append(timers, sig)

\* onShowPopup up to its first await (or to its end when it does not await)
onShowPopup(data) ==
  /\ nMsgs < MaxMsgs
  /\ (~Suppressed(data) /\ popupWindow = 0 /\ mainWindow) => nWin < MaxWin
  /\ nMsgs' = nMsgs + 1
  /\ ev' = [op |-> "msg", championId |-> data.championId,
            noCache |-> data.noCache, signal |-> ~Suppressed(data),
            before |-> IF data.noCache THEN 0 ELSE lastSignaled]
  /\ lastSignaled' = IF Suppressed(data)
                     THEN (IF data.noCache THEN 0 ELSE lastSignaled)
                     ELSE data.championId
  /\ IF Suppressed(data)
     THEN /\ lastChampion' = AfterNoCache(data)
          /\ UNCHANGED <<popupWindow, open, visible, nWin, creating, timers>>
     ELSE /\ lastChampion' = data.championId
          /\ IF popupWindow # 0
             THEN /\ ShowAndPoll(popupWindow, Signal(data, nMsgs + 1))
                  /\ UNCHANGED <<popupWindow, open, nWin, creating>>
             ELSE IF ~mainWindow
             THEN \* createPopupWindow throws at mainWindow!.getPosition()
                  UNCHANGED <<popupWindow, open, visible, nWin, creating, timers>>
             ELSE \* createPopupWindow: new BrowserWindow, await loadURL
                  /\ nWin' = nWin + 1
                  /\ open' = open \cup {nWin + 1}
                  /\ creating' = creating \cup
                       {[win |-> nWin + 1, sig |-> Signal(data, nMsgs + 1)]}
                  /\ UNCHANGED <<popupWindow, visible, timers>>
  /\ UNCHANGED <<mainWindow, pushed>>
  /\ UNCHANGED <<ivars, avars, rvars>>

\* lines 595-597: the SelectedChampion listener of the watcher
SelectedChampion == \E data \in PopupEventData : onShowPopup(data)

\* lines 324-326: the showPopup IPC channel
ShowPopupIpc == \E data \in PopupEventData : onShowPopup(data)

\* lines 217-235: onShowPopup resumes when createPopupWindow has loaded
PopupCreated ==
  \E c \in creating :
    /\ creating' = creating \ {c}
    /\ popupWindow' = c.win
    /\ ShowAndPoll(c.win, c.sig)
    /\ ev' = Ev("created")
    /\ UNCHANGED <<mainWindow, open, nWin, lastChampion, pushed, nMsgs,
                   lastSignaled>>
    /\ UNCHANGED <<ivars, avars, rvars>>

\* lines 226-235: the timer due next fires; all have the period 300 ms, so a
\* timer that is not cleared fires again after every other live timer
TimerTick ==
  /\ timers # <<>>
  /\ ev' = Ev("tick")
  /\ IF popupWindow = 0 \/ popupWindow \notin visible
     THEN \* popupWindow!.isVisible() throws or is false: poll again
          /\ timers' = Append(Tail(timers), Head(timers))
          /\ UNCHANGED pushed
     ELSE /\ pushed' = Append(pushed, [win |-> popupWindow,
                                       championId |-> Head(timers).championId,
                                       n |-> Head(timers).n])
          /\ timers' = Tail(timers)
  /\ UNCHANGED <<mainWindow, popupWindow, open, visible, nWin, lastChampion,
                 creating, nMsgs, lastSignaled>>
  /\ UNCHANGED <<ivars, avars, rvars>>

\* lines 328-330: the hidePopup IPC channel
HidePopup ==
  /\ ev' = Ev("hide")
  /\ visible' = IF popupWindow # 0 THEN visible \ {popupWindow} ELSE visible
  /\ UNCHANGED <<mainWindow, popupWindow, open, nWin, lastChampion, creating,
                 timers, pushed, nMsgs, lastSignaled>>
  /\ UNCHANGED <<ivars, avars, rvars>>

\* lines 598-606: the MatchedStartedOrTerminated listener
MatchedStartedOrTerminated ==
  /\ ev' = Ev("ended")
  /\ lastSignaled' = 0
  /\ IF popupWindow # 0
     THEN /\ lastChampion' = 0
          /\ visible' = visible \ {popupWindow}
     ELSE UNCHANGED <<lastChampion, visible>>
  /\ UNCHANGED <<mainWindow, popupWindow, open, nWin, creating, timers,
                 pushed, nMsgs>>
  /\ UNCHANGED <<ivars, avars, rvars>>

\* lines 151-153: a popup window is closed (only a shown window can be)
PopupClosed ==
  \E w \in visible :
    /\ ev' = Ev("popupClosed")
    /\ open' = open \ {w}
    /\ visible' = visible \ {w}
    /\ popupWindow' = 0
    /\ UNCHANGED <<mainWindow, nWin, lastChampion, creating, timers, pushed,
                   nMsgs, lastSignaled>>
    /\ UNCHANGED <<ivars, avars, rvars>>

\* lines 104-109: the main window is closed
MainClosed ==
  /\ mainWindow
  /\ ev' = Ev("mainClosed")
  /\ mainWindow' = FALSE
  /\ popupWindow' = 0
  /\ UNCHANGED <<open, visible, nWin, lastChampion, creating, timers, pushed,
                 nMsgs, lastSignaled>>
  /\ UNCHANGED <<ivars, avars, rvars>>

\* lines 188-192: app `activate` re-creates the main window
Activate ==
  /\ ~mainWindow
  /\ ev' = Ev("activate")
  /\ mainWindow' = TRUE
  /\ UNCHANGED <<popupWindow, open, visible, nWin, lastChampion, creating,
                 timers, pushed, nMsgs, lastSignaled>>
  /\ UNCHANGED <<ivars, avars, rvars>>

WNext ==
  \/ SelectedChampion
  \/ ShowPopupIpc
  \/ PopupCreated
  \/ TimerTick
  \/ HidePopup
  \/ MatchedStartedOrTerminated
  \/ PopupClosed
  \/ MainClosed
  \/ Activate

\* ------------------------------------------------ strings (as char sequences)
Lower == <<"a","b","c","d","e","f","g","h","i","j","k","l","m",
           "n","o","p","q","r","s","t","u","v","w","x","y","z">>
Upper == <<"A","B","C","D","E","F","G","H","I","J","K","L","M",
           "N","O","P","Q","R","S","T","U","V","W","X","Y","Z">>
Digits == <<"0","1","2","3","4","5","6","7","8","9">>

\* String.prototype.toUpperCase on one character
UpperChar(c) ==
  IF \E i \in 1..Len(Lower) : Lower[i] = c
  THEN Upper[CHOOSE i \in 1..Len(Lower) : Lower[i] = c]
  ELSE c

\* line 386: source.toUpperCase()
ToUpperCase(str) == [i \in 1..Len(str) |-> UpperChar(str[i])]

\* line 386: `${idx + 1}`, the decimal digits of a positive number
RECURSIVE NumberToString(_)
NumberToString(n) ==
  IF n < 10 THEN <<Digits[n + 1]>>
  ELSE NumberToString(n \div 10) \o <<Digits[(n % 10) + 1]>>

\* line 379: an absent and an empty position are both falsy
pStr(position) ==
  IF position = Undefined \/ position[1] = <<>>
  THEN <<>>
  ELSE position[1] \o <<" ", "-", " ">>

\* line 386: fileName of the build at index idx (0-based) of an entry
FileName(src, position, champion, idx) ==
  <<"[">> \o ToUpperCase(src) \o <<"]", " ">> \o pStr(position) \o champion
    \o <<"-">> \o NumberToString(idx + 1)

\* ------------------------------------------- packages and descriptor files
Sources == {<<"o", "p">>}

Ahri == <<"A", "h", "r", "i">>

\* one descriptor entry: alias, position?, itemBuilds (here: how many)
Entry(alias, position, itemBuilds) ==
  [alias |-> alias, position |-> position, itemBuilds |-> itemBuilds]

\* the descriptor files a package or the working directory may hold, by id
DescriptorFiles == {1, 2, 3, 4, 5}

\* what getAllFileContent returns for a file: an array of entries
Content(f) ==
  CASE f = 1 -> <<Entry(Ahri, Undefined, Some(2))>>
    [] f = 2 -> <<Entry(<<"A">>, Some(<<"B">>), Some(1))>>
    [] f = 3 -> <<Entry(<<"B", " ", "-", " ", "A">>, Undefined, Some(1))>>
    [] f = 4 -> <<Entry(<<"Z", "e", "d">>, Undefined, Undefined)>>
    [] f = 5 -> <<Entry(Ahri, Undefined, Some(1))>>

\* ------------------------------------------- the PrepareSourceData handler
\* the data of one updateStatusForMainWindowWebView call
Status(src, msg) ==
  [source |-> src, msg |-> msg, champion |-> Undefined, position |-> Undefined,
   finished |-> FALSE, error |-> FALSE, e |-> "none"]

\* lines 238-243: send to the main window's web view, when there is one
updateStatusForMainWindowWebView(log, data) ==
  IF mainWindow THEN Append(log, data) ELSE log

\* ascending sequence of a set of file ids (the order of the directory walk)
RECURSIVE SortedSeq(_)
SortedSeq(S) ==
  IF S = {} THEN <<>>
  ELSE LET m == CHOOSE x \in S : \A y \in S : x <= y
       IN <<m>> \o SortedSeq(S \ {m})

\* line 374: getAllFileContent(cwd), one array of entries per file
getAllFileContent(dir) == [k \in 1..Cardinality(dir) |-> Content(SortedSeq(dir)[k])]

\* lines 380-404: the tasks one entry starts, one per element of itemBuilds
EntryTasks(src, fi, ei, i) ==
  [idx0 \in 1..i.itemBuilds[1] |->
     [file |-> fi, entry |-> ei, champion |-> i.alias, position |-> i.position,
      idx |-> idx0 - 1,
      fileName |-> FileName(src, i.position, i.alias, idx0 - 1),
      st |-> "pending"]]

\* lines 376-406: files.forEach(arr => arr.forEach(i => ...)) from entry ei of
\* file fi on; itemBuilds.forEach throws when an entry has no itemBuilds
RECURSIVE ForEach(_, _, _, _, _)
ForEach(src, fs, fi, ei, acc) ==
  IF fi > Len(fs) THEN [tasks |-> acc, threw |-> FALSE]
  ELSE IF ei > Len(fs[fi]) THEN ForEach(src, fs, fi + 1, 1, acc)
  ELSE IF fs[fi][ei].itemBuilds = Undefined THEN [tasks |-> acc, threw |-> TRUE]
  ELSE ForEach(src, fs, fi, ei + 1, acc \o EntryTasks(src, fi, ei, fs[fi][ei]))

\* the catch block with its status update left out
CatchSilent(log, src, e) == log

\* lines 413-421: the catch block
Catch(log, src, e) ==
  updateStatusForMainWindowWebView(log,
    [Status(src, "Something went wrong") EXCEPT !.error = TRUE, !.e = e])

\* lines 382-388: the `file` object handed to saveToFile for a task
File(t) == [fileName |-> t.fileName, champion |-> t.champion,
            position |-> t.position, idx |-> t.idx]

\* saveToFile: the build directory with file f written over any file of its name
Write(dir, f) == {d \in dir : d.fileName # f.fileName} \cup {f}

\* the `file` objects the run has handed to saveToFile
Targets == {File(tasks[k]) : k \in 1..Len(tasks)}

\* whether the run ended with Finished and every write of it succeeded
RunOk ==
  /\ pc = "done"
  /\ \E k \in 1..Len(msgs) : msgs[k].finished
  /\ \A k \in 1..Len(tasks) : tasks[k].st = "written"

\* what is recorded of a run that has ended
RunRecord == [source |-> source, archive |-> archive, targets |-> Targets,
              disk |-> disk, ok |-> RunOk]

\* line 332: a PrepareSourceData request starts a run (runs are followed one
\* after the other: the next starts when the last one's promises have settled)
PrepareSourceData ==
  /\ pc \in {"idle", "done"}
  /\ extract.st # "running"
  /\ \A k \in 1..Len(tasks) : tasks[k].st # "pending"
  /\ recording => Len(runs) + (IF pc = "done" THEN 1 ELSE 0) < MaxRuns
  /\ runs' = IF recording /\ pc = "done" THEN Append(runs, RunRecord) ELSE runs
  /\ UNCHANGED <<recording, disk>>
  /\ \E src \in Sources : source' = src
  /\ pc' = "metadata"
  /\ tarball' = Undefined
  /\ archive' = [files |-> {}, cut |-> FALSE]
  /\ extract' = [st |-> "idle", left |-> {}]
  /\ files' = <<>>
  /\ tasks' = <<>>
  /\ msgs' = <<>>
  /\ failed' = "none"
  /\ UNCHANGED cwd
  /\ UNCHANGED <<wvars, avars>>

\* lines 338-349: the metadata lookup settles
Metadata ==
  /\ pc = "metadata"
  /\ \E o \in {"ok", "noTarball", "noDist", "rejected"} :
       IF o \in {"ok", "noTarball"}
       THEN /\ tarball' = IF o = "ok" THEN Some("url") ELSE Undefined
            /\ msgs' = updateStatusForMainWindowWebView(
                         updateStatusForMainWindowWebView(msgs,
                           Status(source, "Fetched metadata")),
                         Status(source, "Downloading tarball"))
            /\ pc' = "download"
            /\ UNCHANGED failed
       ELSE /\ failed' = "metadata"
            /\ msgs' = Catch(msgs, source, o)
            /\ pc' = "done"
            /\ UNCHANGED tarball
  /\ UNCHANGED <<source, archive, extract, cwd, files, tasks>>
  /\ UNCHANGED <<wvars, avars, rvars>>

\* the packages a download may deliver: their descriptor files, whole or cut
Archives ==
  {a \in [files : SUBSET DescriptorFiles, cut : BOOLEAN] :
     Cardinality(cwd \cup a.files) <= MaxCwd}

\* the download with its rejection swallowed: the run goes on without a body
DownloadSwallowed ==
  /\ pc = "download"
  /\ \/ /\ tarball # Undefined
        /\ \E a \in Archives : archive' = a
        /\ msgs' = updateStatusForMainWindowWebView(msgs,
                     Status(source, "Downloaded tarball"))
        /\ UNCHANGED failed
     \/ /\ failed' = "download"
        /\ UNCHANGED <<archive, msgs>>
  /\ pc' = "ensureDir"
  /\ UNCHANGED <<source, tarball, extract, cwd, files, tasks>>
  /\ UNCHANGED <<wvars, avars, rvars>>

\* lines 350-359: the tarball download settles
Download ==
  /\ pc = "download"
  /\ \/ /\ tarball # Undefined
        /\ \E a \in Archives : archive' = a
        /\ msgs' = updateStatusForMainWindowWebView(msgs,
                     Status(source, "Downloaded tarball"))
        /\ pc' = "ensureDir"
        /\ UNCHANGED failed
     \/ /\ failed' = "download"
        /\ msgs' = Catch(msgs, source, "download")
        /\ pc' = "done"
        /\ UNCHANGED archive
  /\ UNCHANGED <<source, tarball, extract, cwd, files, tasks>>
  /\ UNCHANGED <<wvars, avars, rvars>>

\* lines 359-372: ensureDir settles; the stream is piped into tar.x, unawaited
EnsureDir ==
  /\ pc = "ensureDir"
  /\ \/ /\ extract' = [st |-> "running", left |-> archive.files]
        /\ msgs' = updateStatusForMainWindowWebView(msgs,
                     Status(source, "Extracted data"))
        /\ pc' = "sleep"
        /\ UNCHANGED failed
     \/ /\ failed' = "ensureDir"
        /\ msgs' = Catch(msgs, source, "ensureDir")
        /\ pc' = "done"
        /\ UNCHANGED extract
  /\ UNCHANGED <<source, tarball, archive, cwd, files, tasks>>
  /\ UNCHANGED <<wvars, avars, rvars>>

\* lines 361-366: tar.x writes the next file of the archive into cwd
ExtractFile ==
  /\ extract.st = "running"
  /\ Cardinality(extract.left) > (IF archive.cut THEN 1 ELSE 0)
  /\ LET f == CHOOSE x \in extract.left : \A y \in extract.left : x <= y
     IN /\ cwd' = cwd \cup {f}
        /\ extract' = [extract EXCEPT !.left = @ \ {f}]
  /\ UNCHANGED <<pc, source, tarball, archive, files, tasks, msgs, failed>>
  /\ UNCHANGED <<wvars, avars, rvars>>

\* lines 361-366: tar.x ends, or emits `error` on a cut archive (no listener)
ExtractEnd ==
  /\ extract.st = "running"
  /\ IF archive.cut
     THEN extract' = [extract EXCEPT !.st = "failed"]
     ELSE /\ extract.left = {}
          /\ extract' = [extract EXCEPT !.st = "done"]
  /\ UNCHANGED <<pc, source, tarball, archive, cwd, files, tasks, msgs,
                 failed>>
  /\ UNCHANGED <<wvars, avars, rvars>>

\* line 372: sleep(3000) settles
Sleep ==
  /\ pc = "sleep"
  /\ pc' = "updateDirStats"
  /\ UNCHANGED <<source, tarball, archive, extract, cwd, files, tasks,
                 msgs, failed>>
  /\ UNCHANGED <<wvars, avars, rvars>>

\* line 373: updateDirStats(cwd) settles
UpdateDirStats ==
  /\ pc = "updateDirStats"
  /\ \/ /\ pc' = "getAllFileContent"
        /\ UNCHANGED <<msgs, failed>>
     \/ /\ failed' = "updateDirStats"
        /\ msgs' = Catch(msgs, source, "updateDirStats")
        /\ pc' = "done"
  /\ UNCHANGED <<source, tarball, archive, extract, cwd, files, tasks>>
  /\ UNCHANGED <<wvars, avars, rvars>>

\* lines 374-407: getAllFileContent settles, then the loop starts the writes
GetAllFileContent ==
  /\ pc = "getAllFileContent"
  /\ \/ LET fs == getAllFileContent(cwd)
            loop == ForEach(source, fs, 1, 1, <<>>)
        IN /\ files' = fs
           /\ tasks' = loop.tasks
           /\ IF loop.threw
              THEN /\ failed' = "forEach"
                   /\ msgs' = Catch(msgs, source, "forEach")
                   /\ pc' = "done"
              ELSE /\ pc' = "join"
                   /\ UNCHANGED <<msgs, failed>>
     \/ /\ failed' = "getAllFileContent"
        /\ msgs' = Catch(msgs, source, "getAllFileContent")
        /\ pc' = "done"
        /\ UNCHANGED <<files, tasks>>
  /\ UNCHANGED <<source, tarball, archive, extract, cwd>>
  /\ UNCHANGED <<wvars, avars, rvars>>

\* how the promise of one saveToFile call settles: fulfilled with a result,
\* fulfilled with an Error, or rejected
Settlements == {"written", "failedWithError", "rejected"}

\* lines 388-402: one saveToFile promise settles and its then-callback runs
SaveToFile ==
  \E k \in 1..Len(tasks), o \in Settlements :
    /\ tasks[k].st = "pending"
    /\ tasks' = [tasks EXCEPT ![k].st = o]
    /\ msgs' = IF o = "written"
               THEN updateStatusForMainWindowWebView(msgs,
                      [Status(source, "Applied builds") EXCEPT
                         !.champion = Some(tasks[k].champion),
                         !.position = tasks[k].position])
               ELSE msgs
    /\ disk' = IF recording /\ o = "written"
                THEN Write(disk, File(tasks[k]))
                ELSE disk
    /\ UNCHANGED <<pc, source, tarball, archive, extract, cwd, files,
                   failed>>
    /\ UNCHANGED <<wvars, avars, recording, runs>>

\* the join left out: Finished is sent without awaiting the write tasks
PromiseAllNoJoin ==
  /\ pc = "join"
  /\ IF \E k \in 1..Len(tasks) : tasks[k].st = "rejected"
     THEN /\ failed' = "saveToFile"
          /\ msgs' = Catch(msgs, source, "saveToFile")
     ELSE /\ msgs' = updateStatusForMainWindowWebView(msgs,
                       [Status(source, "Finished.") EXCEPT !.finished = TRUE])
          /\ UNCHANGED failed
  /\ pc' = "done"
  /\ UNCHANGED <<source, tarball, archive, extract, cwd, files, tasks>>
  /\ UNCHANGED <<wvars, avars, rvars>>

\* lines 407-412: Promise.all(tasks) settles
PromiseAll ==
  /\ pc = "join"
  /\ IF \E k \in 1..Len(tasks) : tasks[k].st = "rejected"
     THEN /\ failed' = "saveToFile"
          /\ msgs' = Catch(msgs, source, "saveToFile")
     ELSE /\ \A k \in 1..Len(tasks) : tasks[k].st # "pending"
          /\ msgs' = updateStatusForMainWindowWebView(msgs,
                       [Status(source, "Finished.") EXCEPT !.finished = TRUE])
          /\ UNCHANGED failed
  /\ pc' = "done"
  /\ UNCHANGED <<source, tarball, archive, extract, cwd, files, tasks>>
  /\ UNCHANGED <<wvars, avars, rvars>>

INext ==
  \/ PrepareSourceData
  \/ Metadata
  \/ Download
  \/ EnsureDir
  \/ ExtractFile
  \/ ExtractEnd
  \/ Sleep
  \/ UpdateDirStats
  \/ GetAllFileContent
  \/ SaveToFile
  \/ PromiseAll

\* --------------------------------------------- rune-page apply (main.ts, lcu)
\* the notifications of one job: what the requester receives on
\* `applyRunePage:done:<jobId>`; st is pending while the handler awaits
Job(st, res, notes) == [st |-> st, res |-> res, notes |-> notes]

\* lines 314, 319: popupWindow!.webContents.send(`applyRunePage:done:${jobId}`);
\* it throws when popupWindow is null
SendDone(notes) == IF popupWindow # 0 THEN Append(notes, "done") ELSE notes

\* lines 312-321: the handler from the settling of the awaited call on: the
\* send of the try block when the call fulfilled, nothing but a log in the
\* catch block, and the send of the finally block in a development build
AfterApply(res) ==
  LET tried == IF res = "ok" THEN SendDone(<<>>) ELSE <<>>
  IN IF isDev THEN SendDone(tried) ELSE tried

\* RuneApplier without its single-in-flight rule: every call starts an apply
IsBusyNever == FALSE

\* spec 4.3: a call issued while another is pending is rejected with Busy
IsBusy == applying # 0

\* lines 311-313: an applyRunePage request; the handler calls
\* lcuWatcher.applyRunePage and awaits it (a Busy rejection settles at once)
ApplyRunePage ==
  /\ Len(jobs) < MaxJobs
  /\ IF IsBusy
     THEN /\ jobs' = Append(jobs, Job("ended", "Busy", AfterApply("Busy")))
          /\ UNCHANGED applying
     ELSE /\ jobs' = Append(jobs, Job("pending", "none", <<>>))
          /\ applying' = Len(jobs) + 1
  /\ UNCHANGED isDev
  /\ UNCHANGED <<wvars, ivars, rvars>>

\* lines 313-321: a pending lcuWatcher.applyRunePage call settles, fulfilled or
\* rejected with an ApplyError, and the handler runs to its end
ApplySettles ==
  \E j \in 1..Len(jobs), res \in {"ok", "ApplyError"} :
    /\ jobs[j].st = "pending"
    /\ jobs' = [jobs EXCEPT ![j] = Job("ended", res, AfterApply(res))]
    /\ applying' = IF applying = j THEN 0 ELSE applying
    /\ UNCHANGED isDev
    /\ UNCHANGED <<wvars, ivars, rvars>>

ANext ==
  \/ ApplyRunePage
  \/ ApplySettles
  \/ MainClosed
  \/ Activate

\* the popup signalling alone, no ingestion run
SpecWatcher == Init /\ [][WNext]_vars

\* the ingestion runs alone, the windows as at start-up
SpecIngest == Init /\ [][INext]_vars

\* a settled promise's continuation runs, and every awaited call, the tar.x
\* stream and every saveToFile promise settles
Handler ==
  \/ Metadata
  \/ Download
  \/ EnsureDir
  \/ Sleep
  \/ UpdateDirStats
  \/ GetAllFileContent
  \/ PromiseAll

FairIngest ==
  /\ SpecIngest
  /\ WF_vars(Handler)
  /\ WF_vars(SaveToFile)
  /\ WF_vars(ExtractFile)
  /\ WF_vars(ExtractEnd)

\* the rune-page applies alone, in a production or a development build
InitApply == Start(BOOLEAN, {FALSE})

SpecApply == InitApply /\ [][ANext]_vars

\* two ingestion runs in a row, the build directory recorded
InitReingest == Start({FALSE}, {TRUE})

SpecReingest == InitReingest /\ [][INext]_vars

\* the whole main process
Next == WNext \/ INext \/ ANext
Spec == Init /\ [][Next]_vars

\* ------------------------------------------------------------------ claims
HasFinished == \E k \in 1..Len(msgs) : msgs[k].finished
HasError == \E k \in 1..Len(msgs) : msgs[k].error
HasMsg(m) == \E k \in 1..Len(msgs) : msgs[k].msg = m
AllSettled == \A k \in 1..Len(tasks) : tasks[k].st # "pending"

\* the failures that end a run before its write tasks are joined
BeforeWriting == {"metadata", "download", "ensureDir", "updateDirStats",
                  "getAllFileContent", "forEach"}

\* C1: a champion-selection message takes the signalling branch of onShowPopup
\* if and only if its championId is present and differs from the last
\* championId signalled since the last MatchEnded or noCache reset.
C1_SignalsIffNew ==
  ev.op = "msg" =>
    (ev.signal <=> (ev.championId # 0 /\ ev.championId # ev.before))

\* C2: every MatchEnded event leaves the dedup memory lastChampion empty,
\* whatever the state of the popup window.
C2_MatchEndedResets == ev.op = "ended" => lastChampion = 0

\* C3: every started ingestion run eventually emits a terminal status message
\* (finished or error).
C3_RunTerminates ==
  (pc \notin {"idle", "done"}) ~> (pc = "done" /\ (HasFinished \/ HasError))

\* C3 witness: a run with a cut archive and a write that failed has ended with
\* its terminal message.
C3_Witness ==
  /\ pc = "done"
  /\ HasFinished
  /\ extract.st = "failed"
  /\ \E k \in 1..Len(tasks) : tasks[k].st = "failedWithError"

\* C4: a run that joined its writes reports failure in its final message if and
\* only if every one of its writes failed (stated for runs with a write).
C4_FailureIffAllFailed ==
  (pc = "done" /\ failed \notin BeforeWriting /\ tasks # <<>> /\ AllSettled) =>
    (HasError <=> \A k \in 1..Len(tasks) : tasks[k].st # "written")

\* C5: when the metadata lookup or the tarball download fails, the run has
\* ended with the error message as its last message, has emitted no Finished
\* and has started no write; and no run gets past the download without a
\* tarball URL.
C5_FetchFailureAborts ==
  /\ failed \in {"metadata", "download"} =>
       /\ pc = "done"
       /\ msgs # <<>>
       /\ msgs[Len(msgs)].error
       /\ ~HasFinished
       /\ ~HasMsg("Extracted data")
       /\ tasks = <<>>
       /\ extract.st = "idle"
  /\ (pc \in {"ensureDir", "sleep", "updateDirStats", "getAllFileContent", "join"}
      \/ HasFinished \/ tasks # <<>>) =>
       (tarball # Undefined /\ failed \notin {"metadata", "download"})

\* C5 witness: the metadata held no tarball URL and the download of it failed.
C5_Witness ==
  /\ pc = "done"
  /\ failed = "download"
  /\ tarball = Undefined
  /\ HasMsg("Downloading tarball")
  /\ msgs[Len(msgs)].error

\* C6: when the extraction of the archive fails, the run emits neither the
\* Extracted message nor Finished, starts no write, and ends with an error.
C6_ExtractFailureAborts ==
  extract.st = "failed" =>
    /\ ~HasMsg("Extracted data")
    /\ ~HasFinished
    /\ tasks = <<>>
    /\ pc = "done" => HasError

\* C7: a run that reached the join of its writes ends with Finished and
\* without an error message, however its writes fail.
C7_WriteFailureIsolated ==
  (pc = "done" /\ failed \notin BeforeWriting) => (HasFinished /\ ~HasError)

\* the tasks started for entry ei of file fi
TasksOfEntry(fi, ei) ==
  SelectSeq(tasks, LAMBDA t : t.file = fi /\ t.entry = ei)

\* whether the transform loop of the run has run
LoopRan == pc = "join" \/ (pc = "done" /\ failed \notin
             {"metadata", "download", "ensureDir", "updateDirStats",
              "getAllFileContent"})

\* C8: once the loop has run, every scanned entry with N itemBuilds has exactly
\* N writes, the k-th named "[" SOURCE "] " (position " - ")? alias "-" k; for
\* source op, Ahri, no position and 2 itemBuilds: [OP] Ahri-1 and [OP] Ahri-2.
C8_WritesPerEntry ==
  LoopRan =>
    \A fi \in 1..Len(files) : \A ei \in 1..Len(files[fi]) :
      LET i == files[fi][ei]
          ts == TasksOfEntry(fi, ei)
      IN i.itemBuilds # Undefined =>
           /\ Len(ts) = i.itemBuilds[1]
           /\ \A k \in 1..Len(ts) :
                ts[k].fileName =
                  <<"[", "O", "P", "]", " ">>
                  \o (IF i.position = Undefined THEN <<>>
                      ELSE i.position[1] \o <<" ", "-", " ">>)
                  \o i.alias \o <<"-">> \o <<Digits[k + 1]>>
           /\ (i.alias = Ahri /\ i.position = Undefined /\ i.itemBuilds = Some(2)) =>
                /\ ts[1].fileName = <<"[","O","P","]"," ","A","h","r","i","-","1">>
                /\ ts[2].fileName = <<"[","O","P","]"," ","A","h","r","i","-","2">>

\* C9: two writes of a run whose (championAlias, position, index) tuples differ
\* never have the same fileName.
C9_FileNameInjective ==
  \A a, b \in 1..Len(tasks) :
    <<tasks[a].champion, tasks[a].position, tasks[a].idx>>
      # <<tasks[b].champion, tasks[b].position, tasks[b].idx>>
    => tasks[a].fileName # tasks[b].fileName

\* C10: no two writes issued by one run target the same fileName.
C10_UniqueFileNames ==
  \A a, b \in 1..Len(tasks) : a # b => tasks[a].fileName # tasks[b].fileName

\* the applies the RuneApplier is running
InFlight == {j \in 1..Len(jobs) : jobs[j].st = "pending"}

\* C11: at most one rune-page apply is in flight at any time; a request that
\* arrives while an apply is pending ends in the same step with Busy (it is
\* neither queued nor started), and the pending apply stays as it was.
C11_SingleInFlight ==
  /\ [](Cardinality(InFlight) <= 1)
  /\ [][(applying # 0 /\ Len(jobs') = Len(jobs) + 1) =>
          /\ jobs'[Len(jobs')].st = "ended"
          /\ jobs'[Len(jobs')].res = "Busy"
          /\ applying' = applying
          /\ jobs[applying].st = "pending"
          /\ jobs'[applying] = jobs[applying]]_vars

\* C11 witness: a request was rejected with Busy while the first apply is
\* still pending.
C11_Witness ==
  /\ Len(jobs) >= 2
  /\ jobs[1].st = "pending"
  /\ jobs[2].res = "Busy"
  /\ applying = 1

\* C12: every applyRunePage request that has ended gave its requester exactly
\* one outcome notification: done when the apply succeeded, an error when it
\* failed.
C12_OneOutcome ==
  \A j \in 1..Len(jobs) :
    jobs[j].st = "ended" =>
      /\ Len(jobs[j].notes) = 1
      /\ jobs[j].notes[1] = "done" <=> jobs[j].res = "ok"

\* C14: a descriptor entry without an itemBuilds sequence is skipped: it
\* starts no write and does not abort the run, every well-formed entry scanned
\* with it gets its writes, and the run ends in Finished when no call fails.
C14_MalformedSkipped ==
  LoopRan =>
    /\ failed # "forEach"
    /\ \A fi \in 1..Len(files) : \A ei \in 1..Len(files[fi]) :
         LET i == files[fi][ei]
         IN Len(TasksOfEntry(fi, ei)) =
              (IF i.itemBuilds = Undefined THEN 0 ELSE i.itemBuilds[1])
    /\ (pc = "done" /\ failed = "none") => HasFinished

\* whether the directory scan of the run has started
ScanStarted ==
  pc \in {"getAllFileContent", "join"}
  \/ (pc = "done" /\ failed \notin {"metadata", "download", "ensureDir"})

\* C15: the Extracted message is emitted, and the directory scan starts, only
\* after the extraction of the archive into the working directory has completed.
C15_StagesSequential ==
  (HasMsg("Extracted data") \/ ScanStarted) => extract.st = "done"

\* C16: when the Finished message of a run has been sent, no write of the run
\* is still pending.
C16_FinishedAfterJoin == HasFinished => AllSettled

\* C16 witness: Finished was sent for a run with two writes, one of which
\* failed.
C16_Witness ==
  /\ HasFinished
  /\ Len(tasks) >= 2
  /\ \E k \in 1..Len(tasks) : tasks[k].st = "written"
  /\ \E k \in 1..Len(tasks) : tasks[k].st = "failedWithError"

\* whether a status update is terminal
Terminal(m) == m.finished \/ m.error

\* C17: a run emits at most one terminal message, and a terminal message is the
\* last message of the run (no Applied builds message follows it).
C17_TerminalIsLast ==
  \A k \in 1..Len(msgs) : Terminal(msgs[k]) => k = Len(msgs)

\* C20: every write of a run derives from a descriptor file of the archive
\* fetched in that run, never from a file an earlier run left in the working
\* directory.
C20_OnlyCurrentArchive ==
  \A k \in 1..Len(tasks) :
    \E f \in archive.files :
      \E ei \in 1..Len(Content(f)) :
        Content(f)[ei] = files[tasks[k].file][tasks[k].entry]

\* C13: when a run of a source with an uncut package has ended in Finished
\* with every write done, and the run before it was such a run of the same
\* source with the same package, both runs targeted the same files and the
\* build directory is as the first run left it.
C13_Idempotent ==
  (runs # <<>> /\ RunOk /\ ~archive.cut) =>
    LET first == runs[Len(runs)]
    IN (first.ok /\ first.source = source /\ first.archive = archive) =>
         /\ Targets = first.targets
         /\ disk = first.disk

\* C18: a message with noCache set and a championId present always signals,
\* even when the id equals the last one signalled; a message without a
\* championId never signals, with or without noCache.
C18_NoCacheSignals ==
  ev.op = "msg" =>
    /\ (ev.noCache /\ ev.championId # 0) => (ev.signal /\ lastChampion = ev.championId)
    /\ ev.championId = 0 => ~ev.signal

\* C18 witness: two messages with the same championId were both signalled, the
\* second one with noCache set.
C18_Witness ==
  /\ ev.op = "msg" /\ ev.noCache /\ ev.signal
  /\ nMsgs = 2
  /\ Len(timers) = 2
  /\ timers[1].championId = timers[2].championId

\* C19: the championIds pushed to the popup arrive in the order their signals
\* were accepted (so the last one pushed is the most recently accepted of
\* those pushed), and no two popup windows are being created at once.
C19_PushOrder ==
  /\ \A a, b \in 1..Len(pushed) : a < b => pushed[a].n < pushed[b].n
  /\ Cardinality(creating) <= 1

====
